---- MODULE Spec2Model ----
(***************************************************************************)
(* Model of the EHR demo backend (src/backend/server.js): the in-memory    *)
(* patient store, its four patient routes and the mocked feature routes.   *)
(* Every route handler runs to completion, so each handler is one action.  *)
(* A JSON object is a function from its keys to its values; a URL path     *)
(* parameter is a sequence of one-character strings.                       *)
(*                                                                         *)
(* Six specifications share the module:                                    *)
(*   Spec        the backend handling one request after another;           *)
(*   ClientSpec  the axios API client of src/frontend/src/services/api.js  *)
(*               with its request and response interceptors;               *)
(*   ConcSpec    two requests in flight at once, handled by the backend    *)
(*               in either order;                                          *)
(*   PageSpec    the Patient Management page (its list, dialog and form);  *)
(*   NotesSpec   the Clinical Notes page calling the backend through the   *)
(*               API client;                                               *)
(*   ImageSpec   the Image Enhancement page and its timers.                *)
(***************************************************************************)
EXTENDS Integers, Sequences, FiniteSets, TLC

VARIABLES patients, lastReq, lastResp, posts

\* The API client: window.localStorage, window.location.href, the requests
\* sent and not yet settled, and what the last settled call gave its caller.
VARIABLES localStorage, location, inflight, lastOutcome

\* Two concurrent requests: those not yet handled, and the handled ones with
\* their responses, in handling order.
VARIABLES pending, handled

\* The Patient Management page: its useState values and the last event
\* handler that ran.
VARIABLES pmPatients, openDialog, pmNewPatient, pmLast

\* The Clinical Notes page: its useState values, the generate requests sent
\* and not yet settled, the last reply received and the last event.
VARIABLES noteType, patientName, patientId, clinicalFindings, generatedNote,
          loading, notesInflight, notesReply, notesLast

\* The Image Enhancement page: its useState values, the pending setTimeout
\* callbacks in scheduling order, the number of object URLs created, and the
\* last event.
VARIABLES originalImage, enhancedImage, timers, urlsCreated, ieLast

serverVars == <<patients, lastReq, lastResp, posts>>

clientVars == <<localStorage, location, inflight, lastOutcome>>

concVars == <<pending, handled>>

pmVars == <<pmPatients, openDialog, pmNewPatient, pmLast>>

notesVars ==
  <<noteType, patientName, patientId, clinicalFindings, generatedNote,
    loading, notesInflight, notesReply, notesLast>>

imageVars == <<originalImage, enhancedImage, timers, urlsCreated, ieLast>>

pageVars == <<pmVars, notesVars, imageVars>>

vars == <<serverVars, clientVars, concVars, pageVars>>

\* ------------------------------------------------------------------------
\* Bounds
\* ------------------------------------------------------------------------
\* The store is unbounded in the code; POST /patients is cut off here.
MaxPatients == 4

\* Largest identifier the properties quantify over.
MaxId == 99

\* Requests the API client may have sent and not yet seen settled.
MaxInflight == 2

\* Rows of the Patient Management page (four samples and the added ones).
MaxPagePatients == 6

\* Files the user may pick on the Image Enhancement page.
MaxUploads == 4

\* ------------------------------------------------------------------------
\* Inputs
\* ------------------------------------------------------------------------
\* Request bodies of POST /patients and PUT /patients/:id (express.json()
\* hands the handler an object; {} when the request carries none).
EmptyBody == [k \in {} |-> 0]

Bodies ==
  { EmptyBody,
    [name |-> "Jane", age |-> 28],
    [age |-> 29],
    [id |-> 1] }

\* Values of req.params.id, as character sequences.
Paths ==
  { <<"1">>, <<"3">>, <<"9", "9">>,
    <<"a", "b", "c">>, <<"1", "a", "b", "c">>, <<"1", ".", "5">>,
    <<"-", "1">>, <<"0">> }

\* Values of req.body.note_type; "undefined" stands for a body without the key.
NoteTypes == { "soap", "discharge", "radiology", "unknown", "SOAP", "undefined" }

\* ------------------------------------------------------------------------
\* JavaScript helpers
\* ------------------------------------------------------------------------
Digits == <<"0", "1", "2", "3", "4", "5", "6", "7", "8", "9">>

IsDigit(c) == \E d \in 1..10 : Digits[d] = c

DigitVal(c) == (CHOOSE d \in 1..10 : Digits[d] = c) - 1

\* Length of the longest prefix of s made of decimal digits.
RECURSIVE DigitPrefixLen(_)
DigitPrefixLen(s) ==
  IF s = <<>> \/ ~IsDigit(Head(s)) THEN 0 ELSE 1 + DigitPrefixLen(Tail(s))

\* Value of a sequence of decimal digits, most significant first.
RECURSIVE DigitsValue(_, _)
DigitsValue(s, acc) ==
  IF s = <<>> THEN acc ELSE DigitsValue(Tail(s), acc * 10 + DigitVal(Head(s)))

\* parseInt(string) with no radix: an optional sign, then the longest run of
\* decimal digits; what follows the digits is ignored; NaN when there is no
\* digit.  (Leading white space and the 0x prefix do not occur in Paths.)
parseInt(s) ==
  LET signed == s # <<>> /\ Head(s) \in {"-", "+"}
      neg    == s # <<>> /\ Head(s) = "-"
      rest   == IF signed THEN Tail(s) ELSE s
      n      == DigitPrefixLen(rest)
      v      == DigitsValue(SubSeq(rest, 1, n), 0)
  IN  IF n = 0 THEN [nan |-> TRUE, n |-> 0]
      ELSE [nan |-> FALSE, n |-> IF neg THEN 0 - v ELSE v]

\* String(n) for a natural number n, as the client's template literal
\* `/patients/${patientId}` writes it into the URL.
RECURSIVE DecimalText(_)
DecimalText(n) ==
  IF n < 10 THEN <<Digits[n + 1]>>
  ELSE Append(DecimalText(n \div 10), Digits[(n % 10) + 1])

\* p.id === id, where id is the result of parseInt: NaN equals nothing.
StrictEq(v, id) == ~id.nan /\ v = id.n

\* Array.prototype.findIndex(p => p.id === id): the first matching position
\* (1-based here), 0 for JavaScript's -1.
findIndex_first(ps, id) ==
  IF \E i \in 1..Len(ps) : StrictEq(ps[i].id, id)
  THEN CHOOSE i \in 1..Len(ps) :
         StrictEq(ps[i].id, id) /\ \A j \in 1..(i - 1) : ~StrictEq(ps[j].id, id)
  ELSE IF Len(ps) > 0 THEN 1 ELSE 0

findIndex(ps, id) ==
  IF \E i \in 1..Len(ps) : StrictEq(ps[i].id, id)
  THEN CHOOSE i \in 1..Len(ps) :
         StrictEq(ps[i].id, id) /\ \A j \in 1..(i - 1) : ~StrictEq(ps[j].id, id)
  ELSE 0

\* Object spread { ...a, ...b }: the keys of both, b's value where both have one.
merge_keepOld(a, b) ==
  [k \in DOMAIN a \cup DOMAIN b |-> IF k \in DOMAIN a THEN a[k] ELSE b[k]]

merge(a, b) ==
  [k \in DOMAIN a \cup DOMAIN b |-> IF k \in DOMAIN b THEN b[k] ELSE a[k]]

\* ------------------------------------------------------------------------
\* Responses
\* ------------------------------------------------------------------------
Response(status, body) == [status |-> status, body |-> body]

NotFound == Response(404, [error |-> "Patient not found"])

InvalidNoteType == Response(400, [error |-> "Invalid note type"])

NoReq == [op |-> "none", path |-> <<>>, body |-> EmptyBody]

NoResp == Response(0, EmptyBody)

Req(op, path, body) == [op |-> op, path |-> path, body |-> body]

\* ------------------------------------------------------------------------
\* Initial state: the module-level `let patients = [...]`
\* ------------------------------------------------------------------------
SeedPatients ==
  << [id |-> 1, name |-> "John Doe", age |-> 30, diagnosis |-> "Fever"],
     [id |-> 2, name |-> "Jane Doe", age |-> 28, diagnosis |-> "Cough"] >>

ServerInit ==
  /\ patients = SeedPatients
  /\ lastReq = NoReq
  /\ lastResp = NoResp
  /\ posts = 0

\* No token stored, the application's home page, nothing sent.
EmptyStorage == [k \in {} |-> ""]

NoOutcome == [settled |-> "none", config |-> EmptyBody, status |-> 0, data |-> ""]

ClientInit ==
  /\ localStorage = EmptyStorage
  /\ location = "/"
  /\ inflight = <<>>
  /\ lastOutcome = NoOutcome

\* No batch of concurrent requests.
ConcIdle ==
  /\ pending = {}
  /\ handled = <<>>

\* const samplePatients = [...]; ids are character sequences.
samplePatients ==
  << [id |-> <<"P", "0", "0", "1">>, name |-> "Aaryan Sharma", age |-> 45,
      gender |-> "Male", lastVisit |-> "2025-11-10", status |-> "Active",
      imagesProcessed |-> 12, notesGenerated |-> 8],
     [id |-> <<"P", "0", "0", "2">>, name |-> "Sushmita Rao", age |-> 62,
      gender |-> "Female", lastVisit |-> "2025-11-11", status |-> "Active",
      imagesProcessed |-> 5, notesGenerated |-> 3],
     [id |-> <<"P", "0", "0", "3">>, name |-> "Rohan Mehta", age |-> 38,
      gender |-> "Male", lastVisit |-> "2025-11-08", status |-> "Inactive",
      imagesProcessed |-> 8, notesGenerated |-> 5],
     [id |-> <<"P", "0", "0", "4">>, name |-> "Priya Patel", age |-> 29,
      gender |-> "Female", lastVisit |-> "2025-11-12", status |-> "Active",
      imagesProcessed |-> 15, notesGenerated |-> 11] >>

\* useState({ name: "", age: "", gender: "Male" }); age is the text of the field.
blankForm == [name |-> "", age |-> <<>>, gender |-> "Male"]

NoEvent == [op |-> "none", arg |-> <<>>, toast |-> ""]

PmInit ==
  /\ pmPatients = samplePatients
  /\ openDialog = FALSE
  /\ pmNewPatient = blankForm
  /\ pmLast = NoEvent

NotesInit ==
  /\ noteType = "soap"
  /\ patientName = ""
  /\ patientId = ""
  /\ clinicalFindings = ""
  /\ generatedNote = ""
  /\ loading = FALSE
  /\ notesInflight = <<>>
  /\ notesReply = NoResp
  /\ notesLast = [op |-> "none", toast |-> ""]

\* null as an image: no object URL and no file behind it.
NullImage == [url |-> 0, file |-> ""]

\* useState(null) for both images.
ImageInit ==
  /\ originalImage = NullImage
  /\ enhancedImage = NullImage
  /\ timers = <<>>
  /\ urlsCreated = 0
  /\ ieLast = "none"

PageInit ==
  /\ PmInit
  /\ NotesInit
  /\ ImageInit

Init ==
  /\ ServerInit
  /\ ClientInit
  /\ ConcIdle
  /\ PageInit

\* ------------------------------------------------------------------------
\* Route handlers
\* ------------------------------------------------------------------------
\* app.get("/")
Root ==
  /\ lastReq' = Req("GET /", <<>>, EmptyBody)
  /\ lastResp' = Response(200, [message |-> "Backend running successfully!"])
  /\ UNCHANGED <<patients, posts>>
  /\ UNCHANGED <<clientVars, concVars, pageVars>>

\* app.post("/image-enhancement")
ImageEnhancement ==
  /\ lastReq' = Req("POST /image-enhancement", <<>>, EmptyBody)
  /\ lastResp' = Response(200,
       [success |-> TRUE,
        enhanced_image |-> "BASE64_IMAGE_DATA_HERE",
        message |-> "Image enhanced successfully (mock response)."])
  /\ UNCHANGED <<patients, posts>>
  /\ UNCHANGED <<clientVars, concVars, pageVars>>

\* The response of app.post("/clinical-notes") for a note_type.
clinicalNotes_noRadiology(note_type) ==
  IF note_type = "soap"
  THEN Response(200, [note |-> "SOAP note: Subjective, Objective, Assessment, Plan (mock)"])
  ELSE IF note_type = "discharge"
  THEN Response(200, [note |-> "Discharge Summary generated successfully (mock)"])
  ELSE InvalidNoteType

clinicalNotes(note_type) ==
  IF note_type = "soap"
  THEN Response(200, [note |-> "SOAP note: Subjective, Objective, Assessment, Plan (mock)"])
  ELSE IF note_type = "discharge"
  THEN Response(200, [note |-> "Discharge Summary generated successfully (mock)"])
  ELSE IF note_type = "radiology"
  THEN Response(200, [note |-> "Radiology Report generated successfully (mock)"])
  ELSE InvalidNoteType

ClinicalNotes ==
  \E nt \in NoteTypes :
    /\ lastReq' = Req("POST /clinical-notes", <<>>,
                      IF nt = "undefined" THEN EmptyBody ELSE [note_type |-> nt])
    /\ lastResp' = clinicalNotes(nt)
    /\ UNCHANGED <<patients, posts>>
    /\ UNCHANGED <<clientVars, concVars, pageVars>>

\* app.post("/icd10-coding")
Icd10Coding ==
  /\ lastReq' = Req("POST /icd10-coding", <<>>, EmptyBody)
  /\ lastResp' = Response(200,
       [codes |-> << [code |-> "A00", description |-> "Cholera"],
                     [code |-> "B20", description |-> "HIV disease"] >>])
  /\ UNCHANGED <<patients, posts>>
  /\ UNCHANGED <<clientVars, concVars, pageVars>>

\* app.get("/patients")
ListPatients ==
  /\ lastReq' = Req("GET /patients", <<>>, EmptyBody)
  /\ lastResp' = Response(200, patients)
  /\ UNCHANGED <<patients, posts>>
  /\ UNCHANGED <<clientVars, concVars, pageVars>>

\* The response of app.get("/patients/:id").
getPatient(ps, path) ==
  LET index == findIndex(ps, parseInt(path))
  IN  IF index = 0 THEN NotFound ELSE Response(200, ps[index])

GetPatient ==
  \E path \in Paths :
    /\ lastReq' = Req("GET /patients/:id", path, EmptyBody)
    /\ lastResp' = getPatient(patients, path)
    /\ UNCHANGED <<patients, posts>>
    /\ UNCHANGED <<clientVars, concVars, pageVars>>

\* The record app.post("/patients") builds: { id: patients.length + 1, ...req.body }.
RECURSIVE maxId(_)
maxId(ps) ==
  IF ps = <<>> THEN 0
  ELSE LET m == maxId(Tail(ps)) IN IF Head(ps).id > m THEN Head(ps).id ELSE m

newPatient_maxPlusOne(ps, body) == merge([id |-> maxId(ps) + 1], body)

newPatient_seedLength(ps, body) == merge([id |-> 3], body)

newPatient_idFromZero(ps, body) == merge([id |-> Len(ps)], body)

newPatient(ps, body) == merge([id |-> Len(ps) + 1], body)

\* The store after app.post("/patients") has handled a body.
postPatients_replaceLast(ps, body) ==
  [ps EXCEPT ![Len(ps)] = newPatient(ps, body)]

postPatients_unshift(ps, body) == <<newPatient(ps, body)>> \o ps

postPatients(ps, body) == Append(ps, newPatient(ps, body))

\* The response of app.post("/patients").
postResponse(ps, body) ==
  Response(200, [message |-> "Patient added", patient |-> newPatient(ps, body)])

PostPatient ==
  \E body \in Bodies :
    /\ Len(patients) < MaxPatients
    /\ patients' = postPatients(patients, body)
    /\ lastReq' = Req("POST /patients", <<>>, body)
    /\ lastResp' = postResponse(patients, body)
    /\ posts' = posts + 1
    /\ UNCHANGED <<clientVars, concVars, pageVars>>

\* The store after app.put("/patients/:id") has handled a path and a body.
putPatients_upsert(ps, path, body) ==
  LET index == findIndex(ps, parseInt(path))
  IN  IF index = 0 THEN Append(ps, body)
      ELSE [ps EXCEPT ![index] = merge(ps[index], body)]

putPatients(ps, path, body) ==
  LET index == findIndex(ps, parseInt(path))
  IN  IF index = 0 THEN ps
      ELSE [ps EXCEPT ![index] = merge(ps[index], body)]

\* The response of app.put("/patients/:id"): patients[index] after the merge.
putResponse(ps, path, body) ==
  LET index == findIndex(ps, parseInt(path))
  IN  IF index = 0 THEN NotFound
      ELSE Response(200,
             [message |-> "Patient updated",
              patient |-> putPatients(ps, path, body)[index]])

PutPatient ==
  \E path \in Paths, body \in Bodies :
    /\ patients' = putPatients(patients, path, body)
    /\ lastReq' = Req("PUT /patients/:id", path, body)
    /\ lastResp' = putResponse(patients, path, body)
    /\ UNCHANGED posts
    /\ UNCHANGED <<clientVars, concVars, pageVars>>

Next ==
  \/ Root
  \/ ImageEnhancement
  \/ ClinicalNotes
  \/ Icd10Coding
  \/ ListPatients
  \/ GetPatient
  \/ PostPatient
  \/ PutPatient

Spec == Init /\ [][Next]_vars

TypeOK ==
  /\ Len(patients) <= MaxPatients
  /\ \A i \in 1..Len(patients) : "id" \in DOMAIN patients[i]
  /\ posts \in 0..MaxPatients

\* ------------------------------------------------------------------------
\* API client (src/frontend/src/services/api.js)
\* ------------------------------------------------------------------------
\* Values found under the localStorage key 'authToken'; the empty string is
\* a stored value that JavaScript treats as false.
Tokens == { "", "tokA", "tokB" }

\* Pages of the application the browser may show.
Routes == { "/", "/patients" }

\* Calls the service functions make on the axios instance.
ServiceCalls ==
  { [method |-> "get", url |-> "/patients"],
    [method |-> "post", url |-> "/clinical-notes"] }

\* Responses a server or gateway may give: status and body.
Responses ==
  { [status |-> 200, data |-> "ok"],
    [status |-> 400, data |-> "Invalid note type"],
    [status |-> 401, data |-> "Unauthorized"],
    [status |-> 404, data |-> "Patient not found"],
    [status |-> 500, data |-> "Internal Server Error"] }

\* The request config axios builds from the instance defaults.
baseConfig(call) ==
  [method |-> call.method, url |-> call.url,
   headers |-> [k \in {"Content-Type"} |-> "application/json"]]

\* localStorage.getItem(key) is truthy: the key is stored with a non-empty value.
hasToken(storage) ==
  "authToken" \in DOMAIN storage /\ storage["authToken"] # ""

\* localStorage.removeItem('authToken')
removeItem(storage) == [k \in DOMAIN storage \ {"authToken"} |-> storage[k]]

\* api.interceptors.request.use((config) => ...)
requestInterceptor_rawToken(config, storage) ==
  IF hasToken(storage)
  THEN [config EXCEPT
          !.headers = merge(@, [Authorization |-> storage["authToken"]])]
  ELSE config

requestInterceptor(config, storage) ==
  IF hasToken(storage)
  THEN [config EXCEPT
          !.headers = merge(@, [Authorization |-> "Bearer " \o storage["authToken"]])]
  ELSE config

\* axios' default validateStatus.
validateStatus(status) == status >= 200 /\ status < 300

\* api.interceptors.response.use(_, (error) => ...): the storage and the
\* location it leaves; the error itself is always rejected onwards.
\* error.hasResponse is false for a transport error (error.response undefined).
responseError_anyStatus(error, storage, loc) ==
  IF error.hasResponse
  THEN [storage |-> removeItem(storage), location |-> "/login"]
  ELSE [storage |-> storage, location |-> loc]

responseError_keepToken(error, storage, loc) ==
  IF error.hasResponse /\ error.status = 401
  THEN [storage |-> storage, location |-> "/login"]
  ELSE [storage |-> storage, location |-> loc]

responseError(error, storage, loc) ==
  IF error.hasResponse /\ error.status = 401
  THEN [storage |-> removeItem(storage), location |-> "/login"]
  ELSE [storage |-> storage, location |-> loc]

RemoveAt(seq, i) == SubSeq(seq, 1, i - 1) \o SubSeq(seq, i + 1, Len(seq))

\* Something outside api.js (a login) stores a token.
StoreToken ==
  \E t \in Tokens :
    /\ localStorage' = merge(localStorage, [authToken |-> t])
    /\ UNCHANGED <<location, inflight, lastOutcome>>
    /\ UNCHANGED <<serverVars, concVars, pageVars>>

\* Something outside api.js (a logout) removes the token.
ClearToken ==
  /\ "authToken" \in DOMAIN localStorage
  /\ localStorage' = removeItem(localStorage)
  /\ UNCHANGED <<location, inflight, lastOutcome>>
  /\ UNCHANGED <<serverVars, concVars, pageVars>>

\* The user opens a page of the application.
Navigate ==
  \E r \in Routes :
    /\ location # r
    /\ location' = r
    /\ UNCHANGED <<localStorage, inflight, lastOutcome>>
    /\ UNCHANGED <<serverVars, concVars, pageVars>>

\* A service function calls api.get / api.post: the request interceptor
\* runs and the request goes out.
Send ==
  \E call \in ServiceCalls :
    /\ Len(inflight) < MaxInflight
    /\ inflight' = Append(inflight, requestInterceptor(baseConfig(call), localStorage))
    /\ UNCHANGED <<localStorage, location, lastOutcome>>
    /\ UNCHANGED <<serverVars, concVars, pageVars>>

\* A response arrives for one of the requests in flight.
Respond ==
  \E i \in 1..Len(inflight), resp \in Responses :
    LET error == [hasResponse |-> TRUE, status |-> resp.status]
        after == responseError(error, localStorage, location)
    IN  /\ inflight' = RemoveAt(inflight, i)
        /\ IF validateStatus(resp.status)
           THEN /\ lastOutcome' = [settled |-> "fulfilled", config |-> inflight[i],
                                   status |-> resp.status, data |-> resp.data]
                /\ UNCHANGED <<localStorage, location>>
           ELSE /\ lastOutcome' = [settled |-> "rejected", config |-> inflight[i],
                                   status |-> resp.status, data |-> resp.data]
                /\ localStorage' = after.storage
                /\ location' = after.location
        /\ UNCHANGED <<serverVars, concVars, pageVars>>

\* A request in flight fails without a response.
NetworkError ==
  \E i \in 1..Len(inflight) :
    LET error == [hasResponse |-> FALSE, status |-> 0]
        after == responseError(error, localStorage, location)
    IN  /\ inflight' = RemoveAt(inflight, i)
        /\ lastOutcome' = [settled |-> "rejected", config |-> inflight[i],
                           status |-> 0, data |-> "Network Error"]
        /\ localStorage' = after.storage
        /\ location' = after.location
        /\ UNCHANGED <<serverVars, concVars, pageVars>>

ClientNext ==
  \/ StoreToken
  \/ ClearToken
  \/ Navigate
  \/ Send
  \/ Respond
  \/ NetworkError

ClientSpec == Init /\ [][ClientNext]_vars

\* ------------------------------------------------------------------------
\* Two concurrent requests (section 5 of the design: each handler runs to
\* completion, requests of different connections are handled in any order)
\* ------------------------------------------------------------------------
Clients == { 1, 2 }

\* Stores the two requests may find: the seeded one, and one with a record
\* created since.
ConcStores ==
  { SeedPatients,
    Append(SeedPatients, [id |-> 3, name |-> "Jane", age |-> 28]) }

ConcBodies == Bodies \cup { [id |-> 5] }

ConcPaths == { <<"1">>, <<"3">>, <<"9", "9">> }

ConcRequests ==
  { Req("POST /patients", <<>>, body) : body \in ConcBodies }
    \cup { Req("PUT /patients/:id", path, body) :
             path \in ConcPaths, body \in ConcBodies }

ConcInit ==
  /\ patients \in ConcStores
  /\ lastReq = NoReq
  /\ lastResp = NoResp
  /\ posts = 0
  /\ ClientInit
  /\ PageInit
  /\ pending \in { { [client |-> 1, req |-> r1], [client |-> 2, req |-> r2] } :
                     r1 \in ConcRequests, r2 \in ConcRequests }
  /\ handled = <<>>

\* The event loop picks a pending POST /patients and runs its handler.
HandlePost ==
  \E c \in pending :
    /\ c.req.op = "POST /patients"
    /\ patients' = postPatients(patients, c.req.body)
    /\ handled' = Append(handled,
         [client |-> c.client, req |-> c.req,
          resp |-> postResponse(patients, c.req.body)])
    /\ pending' = pending \ {c}
    /\ UNCHANGED <<lastReq, lastResp, posts>>
    /\ UNCHANGED <<clientVars, pageVars>>

\* The event loop picks a pending PUT /patients/:id and runs its handler.
HandlePut ==
  \E c \in pending :
    /\ c.req.op = "PUT /patients/:id"
    /\ patients' = putPatients(patients, c.req.path, c.req.body)
    /\ handled' = Append(handled,
         [client |-> c.client, req |-> c.req,
          resp |-> putResponse(patients, c.req.path, c.req.body)])
    /\ pending' = pending \ {c}
    /\ UNCHANGED <<lastReq, lastResp, posts>>
    /\ UNCHANGED <<clientVars, pageVars>>

ConcNext ==
  \/ HandlePost
  \/ HandlePut

ConcSpec == ConcInit /\ [][ConcNext]_vars

\* ------------------------------------------------------------------------
\* Patient Management page (PatientManagement in src/frontend/src/services/api.js)
\* ------------------------------------------------------------------------
\* What the user may type or select in the dialog; the age field is
\* type="number", so its text is empty or a numeral.
FormEdits ==
  { <<"name", "">>, <<"name", "Asha">>,
    <<"age", <<>> >>, <<"age", <<"3", "0">> >>,
    <<"gender", "Male">>, <<"gender", "Female">> }

\* new Date().toISOString().split("T")[0]
Today == "2025-11-13"

\* String.prototype.padStart(n, c) on a character sequence.
RECURSIVE padStart(_, _, _)
padStart(s, n, c) == IF Len(s) >= n THEN s ELSE padStart(<<c>> \o s, n, c)

\* `P${String(n).padStart(3, "0")}`
patientLabel(n) == <<"P">> \o padStart(DecimalText(n), 3, "0")

\* toggleStatus(id): the updater given to setPatients.
toggleStatus_deactivate(prev, id) ==
  [i \in 1..Len(prev) |->
     IF prev[i].id = id THEN [prev[i] EXCEPT !.status = "Inactive"] ELSE prev[i]]

toggleStatus(prev, id) ==
  [i \in 1..Len(prev) |->
     IF prev[i].id = id
     THEN [prev[i] EXCEPT !.status = IF @ = "Active" THEN "Inactive" ELSE "Active"]
     ELSE prev[i]]

\* handleAddPatient(): st holds patients, openDialog and newPatient; the
\* result holds their new values, the toast shown and the calls made on the
\* API client (none).
handleAddPatient_persist(st) ==
  IF st.newPatient.name = "" \/ st.newPatient.age = <<>>
  THEN [patients |-> st.patients, openDialog |-> st.openDialog,
        newPatient |-> st.newPatient, toast |-> "Fill all fields", calls |-> <<>>]
  ELSE [patients |-> Append(st.patients,
           [id |-> patientLabel(Len(st.patients) + 1),
            name |-> st.newPatient.name,
            age |-> parseInt(st.newPatient.age).n,
            gender |-> st.newPatient.gender,
            lastVisit |-> Today,
            status |-> "Active",
            imagesProcessed |-> 0,
            notesGenerated |-> 0]),
        openDialog |-> FALSE,
        newPatient |-> blankForm,
        toast |-> "Patient added successfully!",
        calls |-> << [method |-> "post", url |-> "/patients"] >>]

handleAddPatient_sameLabel(st) ==
  IF st.newPatient.name = "" \/ st.newPatient.age = <<>>
  THEN [patients |-> st.patients, openDialog |-> st.openDialog,
        newPatient |-> st.newPatient, toast |-> "Fill all fields", calls |-> <<>>]
  ELSE [patients |-> Append(st.patients,
           [id |-> patientLabel(Len(st.patients)),
            name |-> st.newPatient.name,
            age |-> parseInt(st.newPatient.age).n,
            gender |-> st.newPatient.gender,
            lastVisit |-> Today,
            status |-> "Active",
            imagesProcessed |-> 0,
            notesGenerated |-> 0]),
        openDialog |-> FALSE,
        newPatient |-> blankForm,
        toast |-> "Patient added successfully!",
        calls |-> <<>>]

handleAddPatient_keepForm(st) ==
  IF st.newPatient.name = "" \/ st.newPatient.age = <<>>
  THEN [patients |-> st.patients, openDialog |-> st.openDialog,
        newPatient |-> st.newPatient, toast |-> "Fill all fields", calls |-> <<>>]
  ELSE [patients |-> Append(st.patients,
           [id |-> patientLabel(Len(st.patients) + 1),
            name |-> st.newPatient.name,
            age |-> parseInt(st.newPatient.age).n,
            gender |-> st.newPatient.gender,
            lastVisit |-> Today,
            status |-> "Active",
            imagesProcessed |-> 0,
            notesGenerated |-> 0]),
        openDialog |-> FALSE,
        newPatient |-> st.newPatient,
        toast |-> "Patient added successfully!",
        calls |-> <<>>]

handleAddPatient(st) ==
  IF st.newPatient.name = "" \/ st.newPatient.age = <<>>
  THEN [patients |-> st.patients, openDialog |-> st.openDialog,
        newPatient |-> st.newPatient, toast |-> "Fill all fields", calls |-> <<>>]
  ELSE [patients |-> Append(st.patients,
           [id |-> patientLabel(Len(st.patients) + 1),
            name |-> st.newPatient.name,
            age |-> parseInt(st.newPatient.age).n,
            gender |-> st.newPatient.gender,
            lastVisit |-> Today,
            status |-> "Active",
            imagesProcessed |-> 0,
            notesGenerated |-> 0]),
        openDialog |-> FALSE,
        newPatient |-> blankForm,
        toast |-> "Patient added successfully!",
        calls |-> <<>>]

\* The requests a handler's calls put in flight, each through the request
\* interceptor.
sendAll(calls) ==
  [i \in 1..Len(calls) |-> requestInterceptor(baseConfig(calls[i]), localStorage)]

\* The "Add New Patient" button: setOpenDialog(true).
OpenAddDialog ==
  /\ ~openDialog
  /\ openDialog' = TRUE
  /\ pmLast' = [op |-> "setOpenDialog", arg |-> <<>>, toast |-> ""]
  /\ UNCHANGED <<pmPatients, pmNewPatient, clientVars>>
  /\ UNCHANGED <<serverVars, concVars, notesVars, imageVars>>

\* Cancel or onClose: setOpenDialog(false).
CloseAddDialog ==
  /\ openDialog
  /\ openDialog' = FALSE
  /\ pmLast' = [op |-> "setOpenDialog", arg |-> <<>>, toast |-> ""]
  /\ UNCHANGED <<pmPatients, pmNewPatient, clientVars>>
  /\ UNCHANGED <<serverVars, concVars, notesVars, imageVars>>

\* onChange of a field of the dialog: setNewPatient({ ...newPatient, [field]: value }).
EditForm ==
  \E e \in FormEdits :
    /\ openDialog
    /\ pmNewPatient[e[1]] # e[2]
    /\ pmNewPatient' = [pmNewPatient EXCEPT ![e[1]] = e[2]]
    /\ pmLast' = [op |-> "setNewPatient", arg |-> <<>>, toast |-> ""]
    /\ UNCHANGED <<pmPatients, openDialog, clientVars>>
    /\ UNCHANGED <<serverVars, concVars, notesVars, imageVars>>

\* The dialog's Add button.
HandleAddPatient ==
  LET r == handleAddPatient([patients |-> pmPatients, openDialog |-> openDialog,
                             newPatient |-> pmNewPatient])
  IN  /\ openDialog
      /\ Len(r.patients) <= MaxPagePatients
      /\ pmPatients' = r.patients
      /\ openDialog' = r.openDialog
      /\ pmNewPatient' = r.newPatient
      /\ pmLast' = [op |-> "handleAddPatient", arg |-> <<>>, toast |-> r.toast]
      /\ inflight' = inflight \o sendAll(r.calls)
      /\ UNCHANGED <<localStorage, location, lastOutcome>>
      /\ UNCHANGED <<serverVars, concVars, notesVars, imageVars>>

\* The status button of a row: toggleStatus(patient.id).
ToggleStatus ==
  \E i \in 1..Len(pmPatients) :
    /\ pmPatients' = toggleStatus(pmPatients, pmPatients[i].id)
    /\ pmLast' = [op |-> "toggleStatus", arg |-> pmPatients[i].id,
                  toast |-> "Patient status updated"]
    /\ UNCHANGED <<openDialog, pmNewPatient, clientVars>>
    /\ UNCHANGED <<serverVars, concVars, notesVars, imageVars>>

PageNext ==
  \/ OpenAddDialog
  \/ CloseAddDialog
  \/ EditForm
  \/ HandleAddPatient
  \/ ToggleStatus

PageSpec == Init /\ [][PageNext]_vars

\* ------------------------------------------------------------------------
\* Clinical Notes page (src/frontend/src/pages/ClinicalNotes.jsx) calling the
\* backend through clinicalNotesService
\* ------------------------------------------------------------------------
\* The note types the Select offers.
NoteOptions == { "soap", "discharge", "radiology" }

\* What the user may type in a text field.
NameTexts == { "", "Asha" }
IdTexts == { "", "P001" }
FindingTexts == { "", "Cough for three days" }

\* Error answers that do not come from the route itself: an expired session
\* or a failing server.
ErrorReplies ==
  { Response(401, [error |-> "Unauthorized"]),
    Response(500, [error |-> "Internal Server Error"]) }

\* disabled={loading} on the Generate button.
generateDisabled_never(isLoading) == FALSE

generateDisabled(isLoading) == isLoading

\* clinicalNotesService.generateSOAPNote / generateDischargeSummary /
\* generateRadiologyReport: the call made on the API client.
clinicalNotesCall(type) ==
  [method |-> "post", url |-> "/clinical-notes", data |-> [note_type |-> type]]

\* handleGenerate up to its await: the new value of loading, the calls made
\* and the toast shown.
handleGenerate(st) ==
  IF st.patientName = "" \/ st.patientId = "" \/ st.clinicalFindings = ""
  THEN [loading |-> st.loading, calls |-> <<>>,
        toast |-> "Please fill in all required fields"]
  ELSE [loading |-> TRUE, calls |-> << clinicalNotesCall(st.noteType) >>,
        toast |-> ""]

\* The request config of a call: the instance defaults and the call's data,
\* through the request interceptor.
notesRequests(calls) ==
  [i \in 1..Len(calls) |->
     merge(requestInterceptor(baseConfig(calls[i]), localStorage),
           [data |-> calls[i].data])]

\* A value read from a response body is truthy.
truthy(data, key) == key \in DOMAIN data /\ data[key] \notin {FALSE, "", 0}

\* handleGenerate after its await: outcome.fulfilled tells whether the call
\* returned response.data (outcome.data) or threw.
handleGenerate_settled(note, outcome) ==
  IF outcome.fulfilled
  THEN IF truthy(outcome.data, "success")
       THEN [generatedNote |-> IF "content" \in DOMAIN outcome.data
                               THEN outcome.data.content ELSE "undefined",
             loading |-> FALSE,
             toast |-> "Clinical note generated successfully!"]
       ELSE [generatedNote |-> note, loading |-> FALSE, toast |-> ""]
  ELSE [generatedNote |-> note, loading |-> FALSE, toast |-> "Error"]

SetNoteType ==
  \E v \in NoteOptions :
    /\ v # noteType
    /\ noteType' = v
    /\ notesLast' = [op |-> "setNoteType", toast |-> ""]
    /\ UNCHANGED <<patientName, patientId, clinicalFindings, generatedNote,
                   loading, notesInflight, notesReply>>
    /\ UNCHANGED <<serverVars, clientVars, concVars, pmVars, imageVars>>

SetPatientName ==
  \E v \in NameTexts :
    /\ v # patientName
    /\ patientName' = v
    /\ notesLast' = [op |-> "setPatientName", toast |-> ""]
    /\ UNCHANGED <<noteType, patientId, clinicalFindings, generatedNote,
                   loading, notesInflight, notesReply>>
    /\ UNCHANGED <<serverVars, clientVars, concVars, pmVars, imageVars>>

SetPatientId ==
  \E v \in IdTexts :
    /\ v # patientId
    /\ patientId' = v
    /\ notesLast' = [op |-> "setPatientId", toast |-> ""]
    /\ UNCHANGED <<noteType, patientName, clinicalFindings, generatedNote,
                   loading, notesInflight, notesReply>>
    /\ UNCHANGED <<serverVars, clientVars, concVars, pmVars, imageVars>>

SetClinicalFindings ==
  \E v \in FindingTexts :
    /\ v # clinicalFindings
    /\ clinicalFindings' = v
    /\ notesLast' = [op |-> "setClinicalFindings", toast |-> ""]
    /\ UNCHANGED <<noteType, patientName, patientId, generatedNote,
                   loading, notesInflight, notesReply>>
    /\ UNCHANGED <<serverVars, clientVars, concVars, pmVars, imageVars>>

\* A click on the Generate button: handleGenerate runs up to its await.
HandleGenerate ==
  LET r == handleGenerate([noteType |-> noteType, patientName |-> patientName,
                           patientId |-> patientId,
                           clinicalFindings |-> clinicalFindings,
                           loading |-> loading])
  IN  /\ ~generateDisabled(loading)
      /\ Len(notesInflight) < MaxInflight
      /\ loading' = r.loading
      /\ notesInflight' = notesInflight \o notesRequests(r.calls)
      /\ notesLast' = [op |-> "handleGenerate", toast |-> r.toast]
      /\ UNCHANGED <<noteType, patientName, patientId, clinicalFindings,
                     generatedNote, notesReply>>
      /\ UNCHANGED <<serverVars, clientVars, concVars, pmVars, imageVars>>

\* The backend handles a generate request and the page receives its answer.
NotesBackendReply ==
  \E i \in 1..Len(notesInflight) :
    LET type == notesInflight[i].data.note_type
        resp == clinicalNotes(type)
        r == handleGenerate_settled(generatedNote,
               [fulfilled |-> validateStatus(resp.status), data |-> resp.body])
        after == responseError([hasResponse |-> TRUE, status |-> resp.status],
                               localStorage, location)
    IN  /\ lastReq' = Req("POST /clinical-notes", <<>>, notesInflight[i].data)
        /\ lastResp' = resp
        /\ notesInflight' = RemoveAt(notesInflight, i)
        /\ notesReply' = resp
        /\ generatedNote' = r.generatedNote
        /\ loading' = r.loading
        /\ notesLast' = [op |-> "settled", toast |-> r.toast]
        /\ IF validateStatus(resp.status)
           THEN UNCHANGED <<localStorage, location>>
           ELSE /\ localStorage' = after.storage
                /\ location' = after.location
        /\ UNCHANGED <<patients, posts, inflight, lastOutcome>>
        /\ UNCHANGED <<noteType, patientName, patientId, clinicalFindings>>
        /\ UNCHANGED <<concVars, pmVars, imageVars>>

\* A generate request is answered with an error status.
NotesErrorReply ==
  \E i \in 1..Len(notesInflight), resp \in ErrorReplies :
    LET r == handleGenerate_settled(generatedNote,
               [fulfilled |-> validateStatus(resp.status), data |-> resp.body])
        after == responseError([hasResponse |-> TRUE, status |-> resp.status],
                               localStorage, location)
    IN  /\ notesInflight' = RemoveAt(notesInflight, i)
        /\ notesReply' = resp
        /\ generatedNote' = r.generatedNote
        /\ loading' = r.loading
        /\ notesLast' = [op |-> "settled", toast |-> r.toast]
        /\ localStorage' = after.storage
        /\ location' = after.location
        /\ UNCHANGED <<inflight, lastOutcome>>
        /\ UNCHANGED <<noteType, patientName, patientId, clinicalFindings>>
        /\ UNCHANGED <<serverVars, concVars, pmVars, imageVars>>

\* A generate request fails without a response.
NotesNetworkError ==
  \E i \in 1..Len(notesInflight) :
    LET r == handleGenerate_settled(generatedNote,
               [fulfilled |-> FALSE, data |-> EmptyBody])
        after == responseError([hasResponse |-> FALSE, status |-> 0],
                               localStorage, location)
    IN  /\ notesInflight' = RemoveAt(notesInflight, i)
        /\ notesReply' = NoResp
        /\ generatedNote' = r.generatedNote
        /\ loading' = r.loading
        /\ notesLast' = [op |-> "failed", toast |-> r.toast]
        /\ localStorage' = after.storage
        /\ location' = after.location
        /\ UNCHANGED <<inflight, lastOutcome>>
        /\ UNCHANGED <<noteType, patientName, patientId, clinicalFindings>>
        /\ UNCHANGED <<serverVars, concVars, pmVars, imageVars>>

NotesNext ==
  \/ SetNoteType
  \/ SetPatientName
  \/ SetPatientId
  \/ SetClinicalFindings
  \/ HandleGenerate
  \/ NotesBackendReply
  \/ NotesErrorReply
  \/ NotesNetworkError

NotesSpec == Init /\ [][NotesNext]_vars

\* ------------------------------------------------------------------------
\* Image Enhancement page (ImageEnhancement in
\* src/frontend/src/pages/ClinicalNotes.jsx)
\* ------------------------------------------------------------------------
\* e.target.files of a change event: empty when the picker was cancelled.
FileLists == { <<>>, <<"xray.png">>, <<"scan.png">> }

\* URL.createObjectURL(file): a fresh URL for every call.
createObjectURL(file, created) == [url |-> created + 1, file |-> file]

\* handleImageUpload(e): st holds originalImage, the pending timer callbacks
\* (each the imgURL it closed over) and the number of URLs created.
handleImageUpload_noTimer(st, files) ==
  IF files = <<>>
  THEN st
  ELSE LET imgURL == createObjectURL(files[1], st.urlsCreated)
       IN  [originalImage |-> imgURL,
            timers |-> st.timers,
            urlsCreated |-> st.urlsCreated + 1]

handleImageUpload(st, files) ==
  IF files = <<>>
  THEN st
  ELSE LET imgURL == createObjectURL(files[1], st.urlsCreated)
       IN  [originalImage |-> imgURL,
            timers |-> Append(st.timers, imgURL),
            urlsCreated |-> st.urlsCreated + 1]

\* The change event of the file input.
HandleImageUpload ==
  \E files \in FileLists :
    LET r == handleImageUpload([originalImage |-> originalImage,
                                timers |-> timers,
                                urlsCreated |-> urlsCreated], files)
    IN  /\ r.urlsCreated <= MaxUploads
        /\ originalImage' = r.originalImage
        /\ timers' = r.timers
        /\ urlsCreated' = r.urlsCreated
        /\ ieLast' = IF files = <<>> THEN "noFile" ELSE "upload"
        /\ UNCHANGED enhancedImage
        /\ UNCHANGED <<serverVars, clientVars, concVars, pmVars, notesVars>>

\* The oldest pending setTimeout callback runs (all have the same delay, so
\* they run in scheduling order): setEnhancedImage(imgURL).
TimerFires ==
  /\ timers # <<>>
  /\ enhancedImage' = Head(timers)
  /\ timers' = Tail(timers)
  /\ ieLast' = "timeout"
  /\ UNCHANGED <<originalImage, urlsCreated>>
  /\ UNCHANGED <<serverVars, clientVars, concVars, pmVars, notesVars>>

ImageNext ==
  \/ HandleImageUpload
  \/ TimerFires

ImageSpec == Init /\ [][ImageNext]_vars

\* ------------------------------------------------------------------------
\* Properties
\* ------------------------------------------------------------------------
GET_ONE == "GET /patients/:id"
PUT_ONE == "PUT /patients/:id"
POST_ONE == "POST /patients"
LIST_ALL == "GET /patients"

Ids == 1..MaxId

Carried(ps, n) == \E i \in 1..Len(ps) : ps[i].id = n

Jane28 == [name |-> "Jane", age |-> 28]

\* C1: in every reachable state no two records of the store have the same
\* identifier.
C1_UniqueIds ==
  \A i, j \in 1..Len(patients) : i # j => patients[i].id # patients[j].id

\* C2: a PUT /patients/{id} never changes the identifier of a stored record,
\* whatever the body.
C2_UpdateKeepsId ==
  [][ lastReq'.op = PUT_ONE =>
        \A i \in 1..Len(patients) : patients'[i].id = patients[i].id ]_vars

\* C3: the record a POST /patients returns has an identifier strictly greater
\* than the identifier of every record the store held before it.
C3_CreateIdGreater ==
  [][ lastReq'.op = POST_ONE =>
        \A i \in 1..Len(patients) :
          patients[i].id < lastResp'.body.patient.id ]_vars

\* C4: for an identifier n that no record carries, GET /patients/n and
\* PUT /patients/n answer 404 {error: "Patient not found"}, and the store is
\* left as it was.
C4_AbsentIdNotFound ==
  [][ \A n \in Ids :
        ( /\ lastReq'.op \in {GET_ONE, PUT_ONE}
          /\ lastReq'.path = DecimalText(n)
          /\ ~Carried(patients, n) )
        => (lastResp' = NotFound /\ patients' = patients) ]_vars

C4_Witness ==
  /\ lastReq.op = PUT_ONE
  /\ lastReq.path = <<"9", "9">>
  /\ lastReq.body = [age |-> 29]
  /\ lastResp = NotFound
  /\ posts > 0

\* C5: a PUT /patients/{id} for an identifier some record carries answers 200
\* with the merged record: the record gets the body's value for every key of
\* the body, keeps its previous value for every other key it had, has no other
\* key, and every other record of the store is unchanged.
C5_UpdateMerges ==
  [][ ( /\ lastReq'.op = PUT_ONE
        /\ \E i \in 1..Len(patients) :
             StrictEq(patients[i].id, parseInt(lastReq'.path)) )
      => ( /\ lastResp'.status = 200
           /\ Len(patients') = Len(patients)
           /\ \E i \in 1..Len(patients) :
                LET old  == patients[i]
                    new  == patients'[i]
                    body == lastReq'.body
                IN  /\ StrictEq(old.id, parseInt(lastReq'.path))
                    /\ DOMAIN new = DOMAIN old \cup DOMAIN body
                    /\ \A k \in DOMAIN body : new[k] = body[k]
                    /\ \A k \in DOMAIN old \ DOMAIN body : new[k] = old[k]
                    /\ lastResp'.body.patient = new
                    /\ \A j \in 1..Len(patients) :
                         j # i => patients'[j] = patients[j] ) ]_vars

C5_Witness ==
  /\ lastReq.op = PUT_ONE
  /\ lastReq.body = [age |-> 29]
  /\ lastResp.status = 200
  /\ lastResp.body.patient = [id |-> 3, name |-> "Jane", age |-> 29]
  /\ Len(patients) = 3
  /\ patients[3] = [id |-> 3, name |-> "Jane", age |-> 29]

\* C6 as stated: after N handled POST /patients, GET /patients returns
\* exactly N records.
C6_Original ==
  lastReq.op = LIST_ALL => Len(lastResp.body) = posts

\* C6 as amended: after N handled POST /patients, GET /patients returns the
\* two seed records' positions followed by exactly N created records, the
\* k-th create at position 2 + k; no other request moves, adds or drops a
\* position.
C6_ListSeedsThenCreates ==
  /\ [](lastReq.op = LIST_ALL =>
          /\ lastResp.status = 200
          /\ lastResp.body = patients
          /\ Len(lastResp.body) = Len(SeedPatients) + posts)
  /\ [][ /\ lastReq'.op = POST_ONE =>
              /\ posts' = posts + 1
              /\ Len(patients') = Len(SeedPatients) + posts'
              /\ patients'[Len(SeedPatients) + posts'] = lastResp'.body.patient
              /\ SubSeq(patients', 1, Len(patients)) = patients
         /\ lastReq'.op # POST_ONE =>
              /\ posts' = posts
              /\ Len(patients') = Len(patients) ]_vars

C6_Witness ==
  /\ lastReq.op = LIST_ALL
  /\ posts = 2
  /\ Len(lastResp.body) = 4
  /\ lastResp.body[3].id = 3
  /\ lastResp.body[4].id = 4

\* C7: a GET /patients/{id} handled right after a POST /patients, with {id}
\* the identifier of the record the POST returned, answers 200 with that
\* record.
C7_CreateThenGet ==
  [][ ( /\ lastReq.op = POST_ONE
        /\ lastReq'.op = GET_ONE
        /\ lastReq'.path = DecimalText(lastResp.body.patient.id) )
      => lastResp' = Response(200, lastResp.body.patient) ]_vars

\* C8 as stated: before any request the store is empty, and the first
\* POST /patients {name: "Jane", age: 28} answers 200 with a patient of id 1.
C8_Original ==
  /\ [](lastReq.op = "none" => patients = <<>>)
  /\ [][ (lastReq.op = "none" /\ lastReq' = Req(POST_ONE, <<>>, Jane28))
         => lastResp' = Response(200,
              [message |-> "Patient added",
               patient |-> [id |-> 1, name |-> "Jane", age |-> 28]]) ]_vars

Jane3 == [id |-> 3, name |-> "Jane", age |-> 28]

Jane3Older == [id |-> 3, name |-> "Jane", age |-> 29]

\* C8 as amended: before any request the store holds the two seed records,
\* so the first POST /patients {name: "Jane", age: 28} answers 200
\* {message: "Patient added", patient: {id: 3, name: "Jane", age: 28}}; the
\* following GET /patients/3 answers 200 with that record; PUT /patients/3
\* {age: 29} answers 200 with age 29 and the name unchanged; and
\* GET /patients/99 answers 404 {error: "Patient not found"}.
C8_SeededScenario ==
  /\ [](lastReq.op = "none" => patients = SeedPatients)
  /\ [][ /\ (lastReq.op = "none" /\ lastReq' = Req(POST_ONE, <<>>, Jane28))
            => /\ lastResp' = Response(200,
                    [message |-> "Patient added", patient |-> Jane3])
               /\ patients' = Append(SeedPatients, Jane3)
         /\ ( /\ patients = Append(SeedPatients, Jane3)
              /\ lastReq' = Req(GET_ONE, <<"3">>, EmptyBody) )
            => lastResp' = Response(200, Jane3)
         /\ ( /\ patients = Append(SeedPatients, Jane3)
              /\ lastReq' = Req(PUT_ONE, <<"3">>, [age |-> 29]) )
            => /\ lastResp'.status = 200
               /\ lastResp'.body.patient.age = 29
               /\ lastResp'.body.patient.name = "Jane"
               /\ patients' = Append(SeedPatients, Jane3Older)
         /\ ( /\ patients = Append(SeedPatients, Jane3Older)
              /\ lastReq' = Req(GET_ONE, <<"9", "9">>, EmptyBody) )
            => lastResp' = NotFound ]_vars

C8_Witness ==
  /\ patients = Append(SeedPatients, Jane3Older)
  /\ posts = 1
  /\ lastReq = Req(GET_ONE, <<"9", "9">>, EmptyBody)
  /\ lastResp = NotFound

\* The path is the decimal text of a positive integer.
IsPositiveDecimal(path) == \E n \in Ids : path = DecimalText(n)

\* C9: GET and PUT /patients/{id} with a path identifier that is not the
\* decimal text of a positive integer answer 404.
C9_MalformedIdNotFound ==
  ( /\ lastReq.op \in {GET_ONE, PUT_ONE}
    /\ ~IsPositiveDecimal(lastReq.path) )
  => lastResp = NotFound

Recognised(body) ==
  /\ "note_type" \in DOMAIN body
  /\ body.note_type \in {"soap", "discharge", "radiology"}

\* C10: POST /clinical-notes answers 400 {error: "Invalid note type"} exactly
\* when the body's note_type is none of "soap", "discharge", "radiology" (a
\* body without note_type included), and answers 200 for each of the three.
C10_InvalidNoteType ==
  lastReq.op = "POST /clinical-notes" =>
    /\ (lastResp = InvalidNoteType) <=> ~Recognised(lastReq.body)
    /\ Recognised(lastReq.body) => lastResp.status = 200

C10_Witness ==
  /\ lastReq.op = "POST /clinical-notes"
  /\ lastReq.body = [note_type |-> "radiology"]
  /\ lastResp.status = 200

\* C11: for each recognised note_type the success response of
\* POST /clinical-notes is an object with the fields success and content.
C11_NoteResponseShape ==
  ( /\ lastReq.op = "POST /clinical-notes"
    /\ Recognised(lastReq.body) )
  => {"success", "content"} \subseteq DOMAIN lastResp.body

\* C12: the response of POST /icd10-coding is an object with the fields
\* success, suggested_codes and total_suggestions, total_suggestions being the
\* length of suggested_codes.
C12_CodingResponseShape ==
  lastReq.op = "POST /icd10-coding" =>
    /\ {"success", "suggested_codes", "total_suggestions"}
         \subseteq DOMAIN lastResp.body
    /\ lastResp.body.total_suggestions = Len(lastResp.body.suggested_codes)

\* C15: POST /patients always answers 200 {message: "Patient added", patient},
\* appends exactly the returned patient at the end of the store and leaves
\* every record that was there unchanged.
C15_CreateAlwaysAppends ==
  [][ lastReq'.op = POST_ONE =>
        /\ lastResp'.status = 200
        /\ DOMAIN lastResp'.body = {"message", "patient"}
        /\ lastResp'.body.message = "Patient added"
        /\ Len(patients') = Len(patients) + 1
        /\ patients'[Len(patients')] = lastResp'.body.patient
        /\ DOMAIN lastResp'.body.patient = {"id"} \cup DOMAIN lastReq'.body
        /\ \A k \in DOMAIN lastReq'.body :
             lastResp'.body.patient[k] = lastReq'.body[k]
        /\ \A i \in 1..Len(patients) : patients'[i] = patients[i] ]_vars

C15_Witness ==
  /\ lastReq = Req(POST_ONE, <<>>, Jane28)
  /\ posts = 2
  /\ lastResp.status = 200
  /\ patients[4] = [id |-> 4, name |-> "Jane", age |-> 28]
  /\ patients[3].id = 1

\* C19: the number of records never decreases, and once GET /patients/{id}
\* answers 200 for a path it answers 200 for that path in every later state.
C19_NeverRemoved ==
  [][ /\ Len(patients') >= Len(patients)
      /\ \A path \in Paths :
           getPatient(patients, path).status = 200
           => getPatient(patients', path).status = 200 ]_vars

MockOps ==
  { "GET /", LIST_ALL, GET_ONE, "POST /image-enhancement",
    "POST /clinical-notes", "POST /icd10-coding" }

\* C20: GET /, GET /patients, GET /patients/{id}, POST /image-enhancement,
\* POST /clinical-notes, POST /icd10-coding and a PUT answering 404 leave the
\* store as it was; a step that changes the store is a POST /patients or a
\* PUT that found its record.
C20_OnlyCreateAndUpdateWrite ==
  [][ /\ ( \/ lastReq'.op \in MockOps
           \/ (lastReq'.op = PUT_ONE /\ lastResp'.status = 404) )
         => patients' = patients
      /\ patients' # patients
         => \/ lastReq'.op = POST_ONE
            \/ (lastReq'.op = PUT_ONE /\ lastResp'.status = 200) ]_vars

C20_Witness ==
  /\ lastReq.op = "POST /clinical-notes"
  /\ lastResp = InvalidNoteType
  /\ posts = 1
  /\ patients[3] = [id |-> 3, name |-> "Jane", age |-> 29]

\* C13: a request sent while a token is stored carries the header
\* Authorization: Bearer <token> with the token stored at that moment; a
\* request sent while none is stored carries no Authorization header.
C13_BearerAttached ==
  [][ Len(inflight') = Len(inflight) + 1 =>
        LET config == inflight'[Len(inflight')]
        IN  /\ hasToken(localStorage) =>
                 /\ "Authorization" \in DOMAIN config.headers
                 /\ config.headers["Authorization"]
                      = "Bearer " \o localStorage["authToken"]
            /\ ~hasToken(localStorage) =>
                 "Authorization" \notin DOMAIN config.headers ]_vars

C13_Witness ==
  /\ Len(inflight) = 2
  /\ "Authorization" \in DOMAIN inflight[1].headers
  /\ inflight[1].headers["Authorization"] = "Bearer tokA"
  /\ "Authorization" \in DOMAIN inflight[2].headers
  /\ inflight[2].headers["Authorization"] = "Bearer tokB"
  /\ "authToken" \notin DOMAIN localStorage

\* C14: when a request receives a 401 response the stored token is removed,
\* the location becomes '/login', and the caller gets a rejection carrying
\* the response's status and body.
C14_UnauthorizedRedirects ==
  [][ ( /\ Len(inflight') < Len(inflight)
        /\ lastOutcome'.status = 401 )
      => ( /\ "authToken" \notin DOMAIN localStorage'
           /\ location' = "/login"
           /\ lastOutcome'.settled = "rejected"
           /\ lastOutcome'.data = "Unauthorized"
           /\ \E i \in 1..Len(inflight) :
                /\ lastOutcome'.config = inflight[i]
                /\ inflight' = RemoveAt(inflight, i) ) ]_vars

C14_Witness ==
  /\ lastOutcome.settled = "rejected"
  /\ lastOutcome.status = 401
  /\ "Authorization" \in DOMAIN lastOutcome.config.headers
  /\ lastOutcome.config.headers["Authorization"] = "Bearer tokA"
  /\ "authToken" \notin DOMAIN localStorage
  /\ location = "/login"
  /\ Len(inflight) = 1

\* Both requests have been handled, and both were of the operation op.
BothHandled(op) ==
  /\ pending = {}
  /\ Len(handled) = 2
  /\ handled[1].req.op = op
  /\ handled[2].req.op = op

\* Two PUTs for one identifier that a record carried when the first was handled.
SameIdPuts ==
  /\ BothHandled(PUT_ONE)
  /\ handled[1].req.path = handled[2].req.path
  /\ handled[1].resp.status = 200

\* C16: of two PUTs for the same present identifier that set one field to
\* different values, neither is rejected and the stored record holds the
\* value of the one handled last.
C16_LastWriteWins ==
  SameIdPuts =>
    \A k \in DOMAIN handled[1].req.body \cap DOMAIN handled[2].req.body :
      handled[1].req.body[k] # handled[2].req.body[k] =>
        /\ handled[2].resp.status = 200
        /\ \E i \in 1..Len(patients) :
             /\ patients[i] = handled[2].resp.body.patient
             /\ patients[i][k] = handled[2].req.body[k]

\* C17: two PUTs for the same present identifier whose bodies have disjoint
\* key sets leave, in every handling order, a record with the fields of both.
C17_DisjointFieldsKept ==
  ( /\ SameIdPuts
    /\ DOMAIN handled[1].req.body \cap DOMAIN handled[2].req.body = {} )
  => \E i \in 1..Len(patients) :
       /\ \A k \in DOMAIN handled[1].req.body :
            k \in DOMAIN patients[i] /\ patients[i][k] = handled[1].req.body[k]
       /\ \A k \in DOMAIN handled[2].req.body :
            k \in DOMAIN patients[i] /\ patients[i][k] = handled[2].req.body[k]

\* C18: two concurrent POST /patients whose bodies carry no id key get
\* different identifiers in either handling order, and both returned records
\* are in the store afterwards.
C18_ConcurrentCreatesDistinct ==
  ( /\ BothHandled(POST_ONE)
    /\ "id" \notin DOMAIN handled[1].req.body
    /\ "id" \notin DOMAIN handled[2].req.body )
  => /\ handled[1].resp.body.patient.id # handled[2].resp.body.patient.id
     /\ \E i, j \in 1..Len(patients) :
          /\ i # j
          /\ patients[i] = handled[1].resp.body.patient
          /\ patients[j] = handled[2].resp.body.patient

C18_Witness ==
  /\ BothHandled(POST_ONE)
  /\ handled[1].client = 2
  /\ handled[1].req.body = [age |-> 29]
  /\ handled[2].client = 1
  /\ handled[2].req.body = Jane28
  /\ handled[2].resp.body.patient.id = 5

\* C21: a response whose status is not 401, and a transport error, leave the
\* stored token and the location as they were; a 2xx response gives the
\* caller the response body, every other outcome is rejected to the caller.
C21_OtherOutcomesKeepSession ==
  [][ ( /\ Len(inflight') < Len(inflight)
        /\ lastOutcome'.status # 401 )
      => ( /\ localStorage' = localStorage
           /\ location' = location
           /\ lastOutcome'.status = 200 =>
                (lastOutcome'.settled = "fulfilled" /\ lastOutcome'.data = "ok")
           /\ lastOutcome'.status # 200 => lastOutcome'.settled = "rejected"
           /\ \E i \in 1..Len(inflight) :
                /\ lastOutcome'.config = inflight[i]
                /\ inflight' = RemoveAt(inflight, i) ) ]_vars

C21_Witness ==
  /\ lastOutcome.settled = "rejected"
  /\ lastOutcome.status = 500
  /\ "authToken" \in DOMAIN localStorage
  /\ localStorage["authToken"] = "tokA"
  /\ "Authorization" \in DOMAIN lastOutcome.config.headers
  /\ lastOutcome.config.headers["Authorization"] = "Bearer tokA"
  /\ location = "/patients"

\* C22: when the body of POST /patients has no id key, the new record's
\* identifier is one plus the number of records in the store when the request
\* is handled; the first create on the seeded store gets 3.
C22_IdIsCountPlusOne ==
  [][ ( /\ lastReq'.op = POST_ONE
        /\ "id" \notin DOMAIN lastReq'.body )
      => ( /\ lastResp'.body.patient.id = Len(patients) + 1
           /\ patients'[Len(patients')].id = Len(patients) + 1
           /\ lastReq.op = "none" => lastResp'.body.patient.id = 3 ) ]_vars

C22_Witness ==
  /\ lastReq = Req(POST_ONE, <<>>, [age |-> 29])
  /\ Len(patients) = 4
  /\ patients[3].id = 1
  /\ patients[4] = [id |-> 4, age |-> 29]
  /\ lastResp.body.patient.id = 4


\* ------------------------------------------------------------------------
\* Patient Management page
\* ------------------------------------------------------------------------
PM_ADD == "handleAddPatient"
PM_TOGGLE == "toggleStatus"
Flipped(status) == IF status = "Active" THEN "Inactive" ELSE "Active"
PmIds(ps) == {ps[i].id : i \in 1..Len(ps)}
SomeToggled == \E i \in 1..4 : pmPatients[i].status # samplePatients[i].status
\* "P" followed by n zero-padded to three digits, for the n the page can reach.
ThreeDigits(n) ==
  IF n < 10 THEN <<"P", "0", "0">> \o DecimalText(n)
  ELSE IF n < 100 THEN <<"P", "0">> \o DecimalText(n)
  ELSE <<"P">> \o DecimalText(n)

\* C23: the page's add-patient and toggle-status handlers are client-local:
\* the list starts as the page's own sample data, and no step of the page
\* puts a request in flight on the API client or changes the backend store
\* or the requests the backend has handled.
C23_ClientLocal ==
  /\ pmPatients = samplePatients
  /\ [][/\ inflight' = inflight
        /\ patients' = patients
        /\ lastReq' = lastReq
        /\ posts' = posts]_vars

C23_Witness ==
  /\ Len(pmPatients) > 4
  /\ SomeToggled
  /\ inflight = <<>>
  /\ patients = SeedPatients
  /\ lastReq = NoReq

\* C24: toggleStatus(id) flips the status of the one patient whose id is id
\* between "Active" and "Inactive" and leaves every other field, every other
\* patient, the length and the order as they were; a second toggleStatus(id)
\* gives back the list as it was before the first.
C24_ToggleOnlyStatus ==
  [][pmLast'.op = PM_TOGGLE =>
       LET id == pmLast'.arg
       IN  /\ Len(pmPatients') = Len(pmPatients)
           /\ Cardinality({i \in 1..Len(pmPatients) : pmPatients[i].id = id}) = 1
           /\ \A i \in 1..Len(pmPatients) :
                IF pmPatients[i].id = id
                THEN /\ pmPatients[i].status \in {"Active", "Inactive"}
                     /\ pmPatients'[i] =
                          [pmPatients[i] EXCEPT !.status = Flipped(pmPatients[i].status)]
                     /\ pmPatients'[i].status # pmPatients[i].status
                ELSE pmPatients'[i] = pmPatients[i]
           /\ toggleStatus(pmPatients', id) = pmPatients]_vars

C24_Witness ==
  /\ pmLast.op = PM_TOGGLE
  /\ pmLast.arg = <<"P", "0", "0", "3">>
  /\ pmPatients[3].status = "Active"
  /\ Len(pmPatients) > 4

\* C25: from the four sample patients, whatever is added and toggled, the ids
\* of the list are pairwise distinct; an add puts the new patient last and
\* gives it the id "P" followed by (previous length + 1) padded to three digits.
C25_DistinctIds ==
  /\ [](Cardinality(PmIds(pmPatients)) = Len(pmPatients))
  /\ [][pmLast'.op = PM_ADD /\ pmPatients' # pmPatients =>
          /\ Len(pmPatients') = Len(pmPatients) + 1
          /\ SubSeq(pmPatients', 1, Len(pmPatients)) = pmPatients
          /\ pmPatients'[Len(pmPatients')].id = ThreeDigits(Len(pmPatients) + 1)]_vars

C25_Witness ==
  /\ Len(pmPatients) = 6
  /\ pmPatients[5].id = <<"P", "0", "0", "5">>
  /\ pmPatients[6].id = <<"P", "0", "0", "6">>
  /\ SomeToggled

\* C26: handleAddPatient with an empty name or an empty age reports an error
\* and leaves the list, the dialog and the form as they were; with both filled
\* it appends exactly one patient, Active and with zero counters, closes the
\* dialog and resets the form to {name: "", age: "", gender: "Male"}.
C26_AddOrNothing ==
  [][pmLast'.op = PM_ADD =>
       IF pmNewPatient.name = "" \/ pmNewPatient.age = <<>>
       THEN /\ pmLast'.toast = "Fill all fields"
            /\ pmPatients' = pmPatients
            /\ openDialog' = openDialog
            /\ pmNewPatient' = pmNewPatient
       ELSE /\ pmLast'.toast = "Patient added successfully!"
            /\ Len(pmPatients') = Len(pmPatients) + 1
            /\ SubSeq(pmPatients', 1, Len(pmPatients)) = pmPatients
            /\ LET added == pmPatients'[Len(pmPatients')]
               IN  /\ added.status = "Active"
                   /\ added.imagesProcessed = 0
                   /\ added.notesGenerated = 0
                   /\ added.name = pmNewPatient.name
                   /\ added.gender = pmNewPatient.gender
            /\ openDialog' = FALSE
            /\ pmNewPatient' = [name |-> "", age |-> <<>>, gender |-> "Male"]]_vars

C26_Witness ==
  /\ pmLast.op = PM_ADD
  /\ pmLast.toast = "Fill all fields"
  /\ openDialog
  /\ pmNewPatient.name = "Asha"
  /\ pmNewPatient.age = <<>>
  /\ Len(pmPatients) = 5
  /\ pmPatients[5].status = "Active"
  /\ pmPatients[5].age = 30


\* ------------------------------------------------------------------------
\* Clinical Notes page
\* ------------------------------------------------------------------------
FieldsFilled == patientName # "" /\ patientId # "" /\ clinicalFindings # ""

\* C27: end to end, once the backend has answered a generate request of the
\* page with a success status, generatedNote is the note text of that answer.
C27_NoteShown ==
  notesLast.op = "settled" /\ validateStatus(notesReply.status)
    => generatedNote = notesReply.body.note

\* C28: loading is true exactly while a generate request is in flight, and at
\* most one is in flight; a click with a required field empty sends nothing and
\* leaves loading false, a click with all filled sets loading and sends one
\* request, and every settling (answer, error status, transport failure)
\* brings loading back to false.
C28_LoadingWhileInFlight ==
  /\ [](loading <=> notesInflight # <<>>)
  /\ [](Len(notesInflight) <= 1)
  /\ [][notesLast'.op = "handleGenerate" =>
          IF FieldsFilled
          THEN /\ loading'
               /\ Len(notesInflight') = 1
               /\ notesInflight'[1].data.note_type = noteType
          ELSE /\ ~loading'
               /\ notesInflight' = <<>>
               /\ notesInflight' = notesInflight]_vars
  /\ [][notesLast'.op \in {"settled", "failed"} =>
          /\ loading
          /\ ~loading'
          /\ notesInflight' = <<>>]_vars

C28_Witness ==
  /\ notesLast.op = "settled"
  /\ notesReply.status = 500
  /\ ~loading
  /\ notesInflight = <<>>
  /\ FieldsFilled


C30_SettlesOnLastUpload ==
  /\ [](timers = <<>> /\ originalImage # NullImage =>
          /\ enhancedImage = originalImage
          /\ originalImage.url = urlsCreated)
  /\ [][ieLast' = "noFile" =>
          /\ originalImage' = originalImage
          /\ enhancedImage' = enhancedImage
          /\ timers' = timers]_vars

C30_Witness ==
  /\ ieLast = "noFile"
  /\ timers = <<>>
  /\ urlsCreated = 3
  /\ enhancedImage = originalImage
  /\ enhancedImage.url = 3

====
